---- MODULE Spec2Model ----
(***************************************************************************)
(* Yakusoku Keeper: the trigger evaluator of src/yakusoku_keeper.py.       *)
(* State: the evaluator's counter and last-fired table, the documents it   *)
(* loaded, the two rule files, and the wall clock.  Trigger keys are       *)
(* sequences of one-character strings so that startswith, `in`, split and  *)
(* int() are computed the way the Python code computes them.               *)
(***************************************************************************)
EXTENDS Integers, Sequences, FiniteSets, TLC

VARIABLES input_count, last_executed_time, rules, home, project, now,
          edits, calls, lastOp, step, ret, pre

vars == <<input_count, last_executed_time, rules, home, project, now,
          edits, calls, lastOp, step, ret, pre>>

(* ------------------------------ bounds --------------------------------- *)
MaxCount == 4
MaxNow == 120
MaxEdits == 1

(* --------------------------- program constants ------------------------- *)
SecondsPerMinute == 60

(* ------------------------- strings as characters ----------------------- *)
Digits == <<"0", "1", "2", "3", "4", "5", "6", "7", "8", "9">>

IsDigit(c) == \E i \in 1..10 : Digits[i] = c

DigitVal(c) == (CHOOSE i \in 1..10 : Digits[i] = c) - 1

StartsWith(s, p) == Len(s) >= Len(p) /\ \A j \in 1..Len(p) : s[j] = p[j]

(* p in s *)
Contains(s, p) ==
    \E i \in 1..(Len(s) - Len(p) + 1) : \A j \in 1..Len(p) : s[i + j - 1] = p[j]

(* s.split("_"): the pieces between the underscores, empty pieces included *)
Underscores(s) == {i \in 1..Len(s) : s[i] = "_"}

Cut(s, k) ==
    IF k = 0 THEN 0
    ELSE IF k > Cardinality(Underscores(s)) THEN Len(s) + 1
    ELSE CHOOSE i \in Underscores(s) :
             Cardinality({j \in Underscores(s) : j < i}) = k - 1

Split(s) ==
    [k \in 1..(Cardinality(Underscores(s)) + 1) |->
        SubSeq(s, Cut(s, k - 1) + 1, Cut(s, k) - 1)]

RECURSIVE DigitsValue(_, _, _)
DigitsValue(s, i, acc) ==
    IF i > Len(s) THEN acc
    ELSE DigitsValue(s, i + 1, acc * 10 + DigitVal(s[i]))

AllDigits(s) == Len(s) > 0 /\ \A i \in 1..Len(s) : IsDigit(s[i])

ParseInt(s) ==
    IF Len(s) > 0 /\ s[1] \in {"-", "+"}
    THEN LET body == SubSeq(s, 2, Len(s)) IN
         IF AllDigits(body)
         THEN [ok |-> TRUE,
               val |-> IF s[1] = "-" THEN 0 - DigitsValue(body, 1, 0)
                       ELSE DigitsValue(body, 1, 0)]
         ELSE [ok |-> FALSE, val |-> 0]
    ELSE IF AllDigits(s)
         THEN [ok |-> TRUE, val |-> DigitsValue(s, 1, 0)]
         ELSE [ok |-> FALSE, val |-> 0]

RECURSIVE NatToStr(_)
NatToStr(n) ==
    IF n < 10 THEN <<Digits[n + 1]>>
    ELSE Append(NatToStr(n \div 10), Digits[(n % 10) + 1])

IntToStr(n) == IF n < 0 THEN <<"-">> \o NatToStr(0 - n) ELSE NatToStr(n)

PyMod(a, n) == IF n > 0 THEN a % n ELSE 0 - ((0 - a) % (0 - n))

(* ------------------------------ key literals --------------------------- *)
EveryPrefix == <<"e", "v", "e", "r", "y", "_">>
InputsTag == <<"_", "i", "n", "p", "u", "t", "s">>
MinutesTag == <<"_", "m", "i", "n", "u", "t", "e", "s">>
FirstKey == <<"f", "i", "r", "s", "t">>

InputsKey(value) == EveryPrefix \o IntToStr(value) \o InputsTag
MinutesKey(value) == EveryPrefix \o IntToStr(value) \o MinutesTag

(* ------------------------------ rule files ----------------------------- *)
(* A rule file is missing, not parseable as YAML ("invalid"), parses to    *)
(* nothing ("empty": blank or comments only), parses to a non-empty YAML   *)
(* list ("list"), or parses to a mapping ("map") whose body is the ordered *)
(* sequence of its entries [key, actions].                                 *)
NoFile == [kind |-> "missing", body |-> <<>>]
InvalidFile == [kind |-> "invalid", body |-> <<>>]
ListFile == [kind |-> "list", body |-> <<>>]
EmptyFile == [kind |-> "empty", body |-> <<>>]
MapFile(b) == [kind |-> "map", body |-> b]

Entry(k, a) == [key |-> k, actions |-> a]

HasKey(body, k) == \E i \in 1..Len(body) : body[i].key = k

KeyIndex(body, k) == CHOOSE i \in 1..Len(body) : body[i].key = k

(* dict.get(key, []) *)
Get(body, k) == IF HasKey(body, k) THEN body[KeyIndex(body, k)].actions ELSE <<>>

(* load_rules: the documents of the files that exist, parse and are truthy, *)
(* home before project.                                                     *)
LoadOne(src, f) ==
    IF f.kind \in {"missing", "invalid", "empty"} THEN <<>>
    ELSE <<[src |-> src, kind |-> f.kind, body |-> f.body]>>

load_rulesProjectFirst(h, p) == LoadOne("project", p) \o LoadOne("home", h)

load_rules(h, p) == LoadOne("home", h) \o LoadOne("project", p)

(* ------------------------------ evaluation ----------------------------- *)
NoErr == "none"

(* applicable.extend(actions); each entry carries the document and key it  *)
(* came from, the returned list is the sequence of the text fields.        *)
Tagged(src, k, a) == [i \in 1..Len(a) |-> [src |-> src, key |-> k, text |-> a[i]]]

Texts(r) == [i \in 1..Len(r) |-> r[i].text]

SetLast(last, k, t) ==
    [x \in (DOMAIN last) \cup {k} |-> IF x = k THEN t ELSE last[x]]

IsDueBeforeIncrement(count, n) == PyMod(count - 1, n) = 0

IsDue(count, n) == PyMod(count, n) = 0

ElapsedStrictly(t, last_time, minutes) == (t - last_time) > minutes * SecondsPerMinute

Elapsed(t, last_time, minutes) == (t - last_time) >= minutes * SecondsPerMinute

InputsBranch(st, src, e, count) ==
    IF StartsWith(e.key, EveryPrefix) /\ Contains(e.key, InputsTag)
    THEN LET n == ParseInt(Split(e.key)[2]) IN
         IF ~n.ok THEN [st EXCEPT !.err = "ValueError"]
         ELSE IF n.val = 0 THEN [st EXCEPT !.err = "ZeroDivisionError"]
         ELSE IF IsDue(count, n.val)
              THEN [st EXCEPT !.applicable = @ \o Tagged(src, e.key, e.actions)]
              ELSE st
    ELSE st

(* a minutes branch that stamps the key each time it is checked *)
MinutesBranchAlwaysStamps(st, src, e, t) ==
    IF StartsWith(e.key, EveryPrefix) /\ Contains(e.key, MinutesTag)
    THEN LET minutes == ParseInt(Split(e.key)[2]) IN
         IF ~minutes.ok THEN [st EXCEPT !.err = "ValueError"]
         ELSE IF e.key \notin DOMAIN st.last
                 \/ Elapsed(t, st.last[e.key], minutes.val)
              THEN [st EXCEPT !.applicable = @ \o Tagged(src, e.key, e.actions),
                              !.last = SetLast(st.last, e.key, t)]
              ELSE [st EXCEPT !.last = SetLast(st.last, e.key, t)]
    ELSE st

MinutesBranch(st, src, e, t) ==
    IF StartsWith(e.key, EveryPrefix) /\ Contains(e.key, MinutesTag)
    THEN LET minutes == ParseInt(Split(e.key)[2]) IN
         IF ~minutes.ok THEN [st EXCEPT !.err = "ValueError"]
         ELSE IF e.key \notin DOMAIN st.last
                 \/ Elapsed(t, st.last[e.key], minutes.val)
              THEN [st EXCEPT !.applicable = @ \o Tagged(src, e.key, e.actions),
                              !.last = SetLast(st.last, e.key, t)]
              ELSE st
    ELSE st

EvalKey(st, src, e, count, t) ==
    LET s1 == InputsBranch(st, src, e, count) IN
    IF s1.err # NoErr THEN s1 ELSE MinutesBranch(s1, src, e, t)

RECURSIVE EvalKeys(_, _, _, _, _, _)
EvalKeys(st, src, body, i, count, t) ==
    IF i > Len(body) \/ st.err # NoErr THEN st
    ELSE EvalKeys(EvalKey(st, src, body[i], count, t), src, body, i + 1, count, t)

FirstRulesEveryCall(st, doc, count) ==
    [st EXCEPT !.applicable = @ \o Tagged(doc.src, FirstKey, Get(doc.body, FirstKey))]

FirstRules(st, doc, count) ==
    IF count = 1
    THEN [st EXCEPT !.applicable = @ \o Tagged(doc.src, FirstKey, Get(doc.body, FirstKey))]
    ELSE st

(* a document whose first rules are appended after its other keys *)
EvalDocFirstLast(st, doc, count, t) ==
    IF doc.kind # "map" THEN [st EXCEPT !.err = "AttributeError"]
    ELSE FirstRules(EvalKeys(st, doc.src, doc.body, 1, count, t), doc, count)

EvalDoc(st, doc, count, t) ==
    IF doc.kind # "map" THEN [st EXCEPT !.err = "AttributeError"]
    ELSE EvalKeys(FirstRules(st, doc, count), doc.src, doc.body, 1, count, t)

RECURSIVE EvalDocs(_, _, _, _, _)
EvalDocs(st, docs, i, count, t) ==
    IF i > Len(docs) \/ st.err # NoErr THEN st
    ELSE EvalDocs(EvalDoc(st, docs[i], count, t), docs, i + 1, count, t)

(* The loop of get_rules over self.rules, from counter value `count`, the  *)
(* table `last` and the clock reading t.                                   *)
Evaluate(docs, count, last, t) ==
    EvalDocs([applicable |-> <<>>, last |-> last, err |-> NoErr], docs, 1, count, t)

(* --------------------------- add_rule / remove_rule -------------------- *)
Targets == {"home", "project"}

RuleKeyOk(rule_type, value) ==
    \/ rule_type = "first"
    \/ rule_type \in {"every_N_inputs", "every_N_minutes"} /\ value # 0

(* value 0 stands for every falsy value, None included *)
RuleKey(rule_type, value) ==
    IF rule_type = "first" THEN FirstKey
    ELSE IF rule_type = "every_N_inputs" THEN InputsKey(value)
    ELSE MinutesKey(value)

InList(a, x) == \E i \in 1..Len(a) : a[i] = x

(* list.remove(x): drops the first occurrence *)
RemoveFirst(a, x) ==
    LET j == CHOOSE i \in 1..Len(a) : a[i] = x /\ \A h \in 1..(i - 1) : a[h] # x IN
    SubSeq(a, 1, j - 1) \o SubSeq(a, j + 1, Len(a))

DropAt(body, j) == SubSeq(body, 1, j - 1) \o SubSeq(body, j + 1, Len(body))

(* yaml.dump then yaml.safe_load of a dict of lists of strings: an empty   *)
(* dict is written as a comment line and reads back as nothing.            *)
Dump(body) == IF Len(body) = 0 THEN EmptyFile ELSE MapFile(body)

(* an add_rule without the test for a directive that is already there *)
AddRuleNoDuplicateTest(f, rule_type, rule_content, value) ==
    IF f.kind = "missing" THEN [status |-> "error", file |-> f]
    ELSE IF f.kind = "invalid" THEN [status |-> "error", file |-> f]
    ELSE IF ~RuleKeyOk(rule_type, value) THEN [status |-> "error", file |-> f]
    ELSE IF f.kind = "list" THEN [status |-> "TypeError", file |-> f]
    ELSE LET key == RuleKey(rule_type, value)
             config == IF HasKey(f.body, key) THEN f.body
                       ELSE Append(f.body, Entry(key, <<>>))
             j == KeyIndex(config, key)
         IN  [status |-> "success",
              file |-> MapFile([config EXCEPT ![j].actions = Append(@, rule_content)])]

(* [status, file]: what add_rule returns and what the file holds after it  *)
AddRule(f, rule_type, rule_content, value) ==
    IF f.kind = "missing" THEN [status |-> "error", file |-> f]
    ELSE IF f.kind = "invalid" THEN [status |-> "error", file |-> f]
    ELSE IF ~RuleKeyOk(rule_type, value) THEN [status |-> "error", file |-> f]
    ELSE IF f.kind = "list" THEN [status |-> "TypeError", file |-> f]
    ELSE LET key == RuleKey(rule_type, value)
             config == IF HasKey(f.body, key) THEN f.body
                       ELSE Append(f.body, Entry(key, <<>>))
             j == KeyIndex(config, key)
         IN  IF InList(config[j].actions, rule_content)
             THEN [status |-> "warning", file |-> f]
             ELSE [status |-> "success",
                   file |-> MapFile([config EXCEPT ![j].actions = Append(@, rule_content)])]

(* a remove_rule that leaves a key whose list it has emptied *)
RemoveRuleKeepsKey(f, rule_type, rule_content, value) ==
    IF f.kind = "missing" THEN [status |-> "error", file |-> f]
    ELSE IF f.kind = "invalid" THEN [status |-> "error", file |-> f]
    ELSE IF ~RuleKeyOk(rule_type, value) THEN [status |-> "error", file |-> f]
    ELSE LET key == RuleKey(rule_type, value) IN
         IF f.kind # "map" \/ ~HasKey(f.body, key) THEN [status |-> "warning", file |-> f]
         ELSE LET j == KeyIndex(f.body, key) IN
              IF ~InList(f.body[j].actions, rule_content)
              THEN [status |-> "warning", file |-> f]
              ELSE LET rest == RemoveFirst(f.body[j].actions, rule_content)
                       config == [f.body EXCEPT ![j].actions = rest]
                   IN  [status |-> "success", file |-> Dump(config)]

RemoveRule(f, rule_type, rule_content, value) ==
    IF f.kind = "missing" THEN [status |-> "error", file |-> f]
    ELSE IF f.kind = "invalid" THEN [status |-> "error", file |-> f]
    ELSE IF ~RuleKeyOk(rule_type, value) THEN [status |-> "error", file |-> f]
    ELSE LET key == RuleKey(rule_type, value) IN
         IF f.kind # "map" \/ ~HasKey(f.body, key) THEN [status |-> "warning", file |-> f]
         ELSE LET j == KeyIndex(f.body, key) IN
              IF ~InList(f.body[j].actions, rule_content)
              THEN [status |-> "warning", file |-> f]
              ELSE LET rest == RemoveFirst(f.body[j].actions, rule_content)
                       config == IF Len(rest) = 0 THEN DropAt(f.body, j)
                                 ELSE [f.body EXCEPT ![j].actions = rest]
                   IN  [status |-> "success", file |-> Dump(config)]

(* ------------------------------ rule documents ------------------------- *)
AbcInputs == EveryPrefix \o <<"a", "b", "c">> \o InputsTag
InputsOld == InputsKey(2) \o <<"_", "o", "l", "d">>
MinutesInputs == MinutesKey(1) \o InputsTag
NotesKey == <<"n", "o", "t", "e", "s">>

DocStd ==
    MapFile(<<Entry(FirstKey, <<"hello", "style">>),
              Entry(InputsKey(2), <<"style">>),
              Entry(MinutesKey(2), <<"read">>)>>)

DocAlt ==
    MapFile(<<Entry(InputsKey(2), <<"review", "style">>),
              Entry(MinutesKey(1), <<"pause">>),
              Entry(FirstKey, <<"hello">>)>>)

DocMalformed ==
    MapFile(<<Entry(AbcInputs, <<"X">>),
              Entry(InputsKey(2), <<"Y">>)>>)

DocZeroDiv == MapFile(<<Entry(InputsKey(0), <<"zero">>)>>)

DocOdd ==
    MapFile(<<Entry(NotesKey, <<"memo">>),
              Entry(InputsOld, <<"old">>),
              Entry(MinutesInputs, <<"both">>),
              Entry(MinutesKey(0), <<"always">>),
              Entry(InputsKey(0 - 3), <<"neg">>)>>)

Existing ==
    {InvalidFile, ListFile, EmptyFile, DocStd, DocAlt, DocMalformed, DocZeroDiv, DocOdd}

(* what an edit outside the program leaves: the file deleted or rewritten *)
Menu == {NoFile, DocAlt}

RuleTypes == {"first", "every_N_inputs", "every_N_minutes", "daily"}
Contents == {"style"}
Values == {0, 2}
TickSteps == {0, 60}

(* ------------------------------ the machine ---------------------------- *)
EmptyTable == [k \in {} |-> 0]

NoValue == <<>>

ClearedNothing(last) == last

(* self.last_executed_time = {} *)
Cleared(last) == EmptyTable

Snapshot == [input_count |-> input_count,
             last_executed_time |-> last_executed_time,
             op |-> lastOp,
             home |-> home,
             project |-> project]

(* __init__ and initialize_config_files: counter 0, empty table, nothing   *)
(* loaded, and both rule files exist (created with defaults if absent).    *)
Init ==
    /\ input_count = 0
    /\ last_executed_time = EmptyTable
    /\ rules = <<>>
    /\ home \in Existing
    /\ project \in {DocStd}
    /\ now = 0
    /\ edits = 0
    /\ calls = 0
    /\ lastOp = "init"
    /\ step = "init"
    /\ ret = [status |-> "none", value |-> NoValue]
    /\ pre = [input_count |-> 0, last_executed_time |-> EmptyTable, op |-> "init",
              home |-> home, project |-> project]

(* a get_rules that loads the documents once and evaluates that copy *)
(* on every later call                                              *)
get_rulesCached ==
    /\ input_count < MaxCount
    /\ \E d \in TickSteps :
         /\ now + d <= MaxNow
         /\ now' = now + d
         /\ input_count' = input_count + 1
         /\ rules' = IF rules = <<>> THEN load_rules(home, project) ELSE rules
         /\ \E st \in {Evaluate(rules', input_count', last_executed_time, now')} :
              /\ last_executed_time' = st.last
              /\ ret' = IF st.err = NoErr
                        THEN [status |-> "ok", value |-> st.applicable]
                        ELSE [status |-> st.err, value |-> NoValue]
    /\ calls' = calls + 1
    /\ lastOp' = "get_rules"
    /\ step' = "get_rules"
    /\ pre' = Snapshot
    /\ UNCHANGED <<home, project, edits>>

(* get_rules: count, reload, read the clock, evaluate.  An exception leaves *)
(* the counter, the loaded documents and the table entries already written. *)
get_rules ==
    /\ input_count < MaxCount
    /\ \E d \in TickSteps :
         /\ now + d <= MaxNow
         /\ now' = now + d
         /\ input_count' = input_count + 1
         /\ rules' = load_rules(home, project)
         /\ \E st \in {Evaluate(rules', input_count', last_executed_time, now')} :
              /\ last_executed_time' = st.last
              /\ ret' = IF st.err = NoErr
                        THEN [status |-> "ok", value |-> st.applicable]
                        ELSE [status |-> st.err, value |-> NoValue]
    /\ calls' = calls + 1
    /\ lastOp' = "get_rules"
    /\ step' = "get_rules"
    /\ pre' = Snapshot
    /\ UNCHANGED <<home, project, edits>>

(* a reset that clears the table and forgets to zero the counter *)
resetKeepsCount ==
    /\ input_count' = input_count
    /\ last_executed_time' = Cleared(last_executed_time)
    /\ calls' = 0
    /\ lastOp' = "reset"
    /\ step' = "reset"
    /\ ret' = [status |-> "None", value |-> NoValue]
    /\ pre' = Snapshot
    /\ UNCHANGED <<rules, home, project, now, edits>>

(* a reset that also writes the default project file again *)
resetRestoresDefaults ==
    /\ input_count' = 0
    /\ last_executed_time' = Cleared(last_executed_time)
    /\ project' = DocStd
    /\ calls' = 0
    /\ lastOp' = "reset"
    /\ step' = "reset"
    /\ ret' = [status |-> "None", value |-> NoValue]
    /\ pre' = Snapshot
    /\ UNCHANGED <<rules, home, now, edits>>

reset ==
    /\ input_count' = 0
    /\ last_executed_time' = Cleared(last_executed_time)
    /\ calls' = 0
    /\ lastOp' = "reset"
    /\ step' = "reset"
    /\ ret' = [status |-> "None", value |-> NoValue]
    /\ pre' = Snapshot
    /\ UNCHANGED <<rules, home, project, now, edits>>

WriteTarget(target, f) ==
    /\ home' = IF target = "home" THEN f ELSE home
    /\ project' = IF target = "home" THEN project ELSE f

FileOf(target) == IF target = "home" THEN home ELSE project

(* an add_rule that counts as an interaction *)
AddRuleCallCounts(limit, targets) ==
    /\ edits < limit
    /\ input_count < MaxCount
    /\ \E rule_type \in RuleTypes, rule_content \in Contents,
          target \in targets, value \in Values :
         LET r == AddRule(FileOf(target), rule_type, rule_content, value) IN
         /\ WriteTarget(target, r.file)
         /\ ret' = [status |-> r.status, value |-> NoValue]
    /\ input_count' = input_count + 1
    /\ edits' = edits + 1
    /\ lastOp' = "add_rule"
    /\ step' = "add_rule"
    /\ pre' = Snapshot
    /\ UNCHANGED <<last_executed_time, rules, now, calls>>

(* the add_rule tool, called at most `limit` file changes into a run, on  *)
(* one of `targets`                                                       *)
AddRuleCall(limit, targets) ==
    /\ edits < limit
    /\ \E rule_type \in RuleTypes, rule_content \in Contents,
          target \in targets, value \in Values :
         LET r == AddRule(FileOf(target), rule_type, rule_content, value) IN
         /\ WriteTarget(target, r.file)
         /\ ret' = [status |-> r.status, value |-> NoValue]
    /\ edits' = edits + 1
    /\ lastOp' = "add_rule"
    /\ step' = "add_rule"
    /\ pre' = Snapshot
    /\ UNCHANGED <<input_count, last_executed_time, rules, now, calls>>

add_rule == AddRuleCall(MaxEdits, Targets)

(* a remove_rule that also empties the last-fired table *)
RemoveRuleCallForgets(limit, targets) ==
    /\ edits < limit
    /\ \E rule_type \in RuleTypes, rule_content \in Contents,
          target \in targets, value \in Values :
         LET r == RemoveRule(FileOf(target), rule_type, rule_content, value) IN
         /\ WriteTarget(target, r.file)
         /\ ret' = [status |-> r.status, value |-> NoValue]
    /\ last_executed_time' = EmptyTable
    /\ edits' = edits + 1
    /\ lastOp' = "remove_rule"
    /\ step' = "remove_rule"
    /\ pre' = Snapshot
    /\ UNCHANGED <<input_count, rules, now, calls>>

RemoveRuleCall(limit, targets) ==
    /\ edits < limit
    /\ \E rule_type \in RuleTypes, rule_content \in Contents,
          target \in targets, value \in Values :
         LET r == RemoveRule(FileOf(target), rule_type, rule_content, value) IN
         /\ WriteTarget(target, r.file)
         /\ ret' = [status |-> r.status, value |-> NoValue]
    /\ edits' = edits + 1
    /\ lastOp' = "remove_rule"
    /\ step' = "remove_rule"
    /\ pre' = Snapshot
    /\ UNCHANGED <<input_count, last_executed_time, rules, now, calls>>

remove_rule == RemoveRuleCall(MaxEdits, Targets)

(* A rule file is edited or deleted outside the program. *)
ExternalEdit ==
    /\ edits < MaxEdits
    /\ \E target \in Targets, f \in Menu :
         /\ f # FileOf(target)
         /\ WriteTarget(target, f)
    /\ edits' = edits + 1
    /\ step' = "edit"
    /\ UNCHANGED <<input_count, last_executed_time, rules, now, calls, lastOp, ret, pre>>

Next == get_rules \/ reset \/ add_rule \/ remove_rule \/ ExternalEdit

Spec == Init /\ [][Next]_vars

(* A session that edits the project file alone: the project file starts   *)
(* with one directive under each of two keys, and add_rule and            *)
(* remove_rule may change it once more often than in Spec.                *)
DocPair == MapFile(<<Entry(MinutesKey(2), <<"style">>), Entry(FirstKey, <<"style">>)>>)

InitEdits ==
    /\ input_count = 0
    /\ last_executed_time = EmptyTable
    /\ rules = <<>>
    /\ home = DocAlt
    /\ project = DocPair
    /\ now = 0
    /\ edits = 0
    /\ calls = 0
    /\ lastOp = "init"
    /\ step = "init"
    /\ ret = [status |-> "none", value |-> NoValue]
    /\ pre = [input_count |-> 0, last_executed_time |-> EmptyTable, op |-> "init",
              home |-> home, project |-> project]

add_ruleProject == AddRuleCall(MaxEdits + 1, {"project"})

remove_ruleProject == RemoveRuleCall(MaxEdits + 1, {"project"})

NextEdits == get_rules \/ reset \/ add_ruleProject \/ remove_ruleProject

SpecEdits == InitEdits /\ [][NextEdits]_vars

(* ------------------------------ properties ----------------------------- *)
(* `calls` counts the get_rules calls since construction or the last reset; *)
(* `pre` is the evaluator state and the last call's name as they were when  *)
(* the last call began; `ret` is what the last call returned or raised.     *)
Returned == lastOp = "get_rules" /\ ret.status = "ok"

(* the directives of the result that document src contributed under key k *)
From(src, k) == Texts(SelectSeq(ret.value, LAMBDA x : x.src = src /\ x.key = k))

Loaded == 1..Len(rules)

PositiveNs == 1..3

(* C1: in a get_rules result the directives of a document's `first` key    *)
(* are present, whole and in order, exactly when the call is the first     *)
(* get_rules since construction or the last reset; every later result has  *)
(* nothing from any `first` key.                                           *)
FirstOnlyOnFirstCall ==
    Returned =>
        \A i \in Loaded :
            From(rules[i].src, FirstKey) =
                IF calls = 1 THEN Get(rules[i].body, FirstKey) ELSE <<>>

FirstAgainAfterReset ==
    /\ Returned
    /\ calls = 1
    /\ pre.op = "reset"
    /\ now > 0
    /\ \E i \in Loaded : From(rules[i].src, FirstKey) # <<>>

(* C2: a key every_N_inputs with N positive contributes its directives to  *)
(* a get_rules result exactly when the number of get_rules calls since     *)
(* construction or the last reset, this one included, is a multiple of N.  *)
EveryInputsExact ==
    Returned =>
        \A i \in Loaded : \A j \in 1..Len(rules[i].body) : \A n \in PositiveNs :
            rules[i].body[j].key = InputsKey(n) =>
                From(rules[i].src, InputsKey(n)) =
                    IF calls % n = 0 THEN rules[i].body[j].actions ELSE <<>>

EveryInputsSecondFiring ==
    /\ Returned
    /\ calls = 4
    /\ \E i \in Loaded : From(rules[i].src, InputsKey(2)) # <<>>

(* C3: a key every_N_minutes with N positive contributes its directives    *)
(* exactly when, at the moment it is checked, it has no recorded timestamp *)
(* or the call's clock reading is at least N minutes past that timestamp;  *)
(* when it fires its timestamp becomes the call's clock reading, otherwise *)
(* the timestamp stays.  The timestamp a key sees is the one of the table  *)
(* when the call began, unless an earlier document of the same call holds  *)
(* the same key and fired, which recorded the call's clock reading.        *)
HeldEarlier(i, k) == \E h \in 1..(i - 1) : HasKey(rules[h].body, k)

DueAtStart(k, n) ==
    k \notin DOMAIN pre.last_executed_time
        \/ now - pre.last_executed_time[k] >= n * SecondsPerMinute

StampSeen(i, k, n) ==
    IF HeldEarlier(i, k) /\ DueAtStart(k, n) THEN now ELSE pre.last_executed_time[k]

NoStampSeen(i, k) == k \notin DOMAIN pre.last_executed_time /\ ~HeldEarlier(i, k)

EveryMinutesGate ==
    Returned =>
        \A i \in Loaded : \A j \in 1..Len(rules[i].body) : \A n \in PositiveNs :
            LET k == MinutesKey(n) IN
            rules[i].body[j].key = k =>
                /\ From(rules[i].src, k) =
                       IF NoStampSeen(i, k)
                             \/ now - StampSeen(i, k, n) >= n * SecondsPerMinute
                       THEN rules[i].body[j].actions ELSE <<>>
                /\ k \in DOMAIN last_executed_time
                /\ last_executed_time[k] =
                       IF DueAtStart(k, n) THEN now ELSE pre.last_executed_time[k]

EveryMinutesRefires ==
    /\ Returned
    /\ \E i \in Loaded : \E n \in PositiveNs :
         LET k == MinutesKey(n) IN
         /\ k \in DOMAIN pre.last_executed_time
         /\ now - pre.last_executed_time[k] >= n * SecondsPerMinute
         /\ From(rules[i].src, k) # <<>>
         /\ last_executed_time[k] = now

(* C4: the result of a get_rules call is the concatenation, in load order, *)
(* of what each loaded document contributes when it is the only document  *)
(* loaded, from the same counter, clock reading and table.                 *)
RECURSIVE AloneFrom(_)
AloneFrom(i) ==
    IF i > Len(rules) THEN <<>>
    ELSE Texts(Evaluate(<<rules[i]>>, input_count, pre.last_executed_time, now).applicable)
         \o AloneFrom(i + 1)

DocumentsIndependent == Returned => Texts(ret.value) = AloneFrom(1)

(* C5: a get_rules that directly follows a reset leaves the counter, the    *)
(* table and the return value that the first get_rules of a freshly built  *)
(* evaluator leaves with the same documents and clock reading: counter 1,  *)
(* every `first` directive present, every every_N_minutes key fired.       *)
FreshOutcome == Evaluate(rules, 1, EmptyTable, now)

ResetThenFirstCall ==
    (lastOp = "get_rules" /\ pre.op = "reset") =>
        /\ input_count = 1
        /\ last_executed_time = FreshOutcome.last
        /\ ret = IF FreshOutcome.err = NoErr
                 THEN [status |-> "ok", value |-> FreshOutcome.applicable]
                 ELSE [status |-> FreshOutcome.err, value |-> NoValue]

ResetSessionRestarts ==
    /\ Returned
    /\ pre.op = "reset"
    /\ now > 0
    /\ \E i \in Loaded : From(rules[i].src, FirstKey) # <<>>
    /\ \E i \in Loaded : From(rules[i].src, MinutesKey(2)) # <<>>

(* C6: a key every_X_inputs whose X is not a number is skipped: get_rules   *)
(* with such a key loaded returns, and returns what it returns with that   *)
(* key taken out of the documents.                                         *)
Without(docs, k) ==
    [i \in 1..Len(docs) |->
        [docs[i] EXCEPT !.body = SelectSeq(@, LAMBDA e : e.key # k)]]

MalformedKeySkipped ==
    (/\ lastOp = "get_rules"
     /\ \E i \in Loaded : HasKey(rules[i].body, AbcInputs)
     /\ Evaluate(Without(rules, AbcInputs), input_count,
                 pre.last_executed_time, now).err = NoErr)
    => /\ ret.status = "ok"
       /\ ret.value = Evaluate(Without(rules, AbcInputs), input_count,
                               pre.last_executed_time, now).applicable

(* C7: a key every_N_inputs or every_N_minutes with N zero or negative is   *)
(* skipped by every get_rules call: the call does not fail on it, nothing  *)
(* of the result comes from it, and the table has no entry for it.         *)
NonPositiveKeys ==
    {InputsKey(n) : n \in (0 - 3)..0} \cup {MinutesKey(n) : n \in (0 - 3)..0}

NonPositiveKeySkipped ==
    lastOp = "get_rules" =>
        /\ ret.status # "ZeroDivisionError"
        /\ \A x \in 1..Len(ret.value) : ret.value[x].key \notin NonPositiveKeys
        /\ \A k \in NonPositiveKeys : k \notin DOMAIN last_executed_time

(* C8: a key that is not `first`, every_<digits>_inputs or                  *)
(* every_<digits>_minutes is inert in every get_rules call: nothing of the  *)
(* result comes from it and the table has no entry for it.                  *)
OtherKeys == {NotesKey, InputsOld, MinutesInputs}

OtherKeysInert ==
    lastOp = "get_rules" =>
        /\ \A x \in 1..Len(ret.value) : ret.value[x].key \notin OtherKeys
        /\ \A k \in OtherKeys : k \notin DOMAIN last_executed_time

(* C9: get_rules always returns: a source that is missing, is not YAML or   *)
(* holds no mapping counts as zero documents, and the call returns what    *)
(* the remaining documents give.                                           *)
Mappings(docs) == SelectSeq(docs, LAMBDA d : d.kind = "map")

BadSourcesTolerated ==
    (/\ lastOp = "get_rules"
     /\ Evaluate(Mappings(rules), input_count, pre.last_executed_time, now).err = NoErr)
    => /\ ret.status = "ok"
       /\ ret.value = Evaluate(Mappings(rules), input_count,
                               pre.last_executed_time, now).applicable

(* C10: when both documents hold the same every_N_inputs key and the key is *)
(* due, the result holds under that key the home list followed by the      *)
(* project list, each in its own order, nothing dropped, and no entry of   *)
(* the project document comes before an entry of the home document.        *)
UnderKey(k) == Texts(SelectSeq(ret.value, LAMBDA x : x.key = k))

SameInputsKeyConcatenated ==
    (Returned /\ Len(rules) = 2) =>
        /\ rules[1].src = "home"
        /\ rules[2].src = "project"
        /\ \A a, b \in 1..Len(ret.value) :
               (ret.value[a].src = "project" /\ ret.value[b].src = "home") => b < a
        /\ \A n \in PositiveNs :
               (/\ HasKey(rules[1].body, InputsKey(n))
                /\ HasKey(rules[2].body, InputsKey(n))
                /\ input_count % n = 0)
               => UnderKey(InputsKey(n)) =
                      Get(rules[1].body, InputsKey(n)) \o Get(rules[2].body, InputsKey(n))

SameInputsKeyBothFire ==
    /\ Returned
    /\ Len(rules) = 2
    /\ input_count = 2
    /\ UnderKey(InputsKey(2)) = <<"review", "style", "style">>

(* C11: right after a reset the counter is 0 and the last-fired table is   *)
(* empty, and a reset that follows a reset leaves the counter, the table   *)
(* and both files exactly as the first reset left them.                    *)
ResetIdempotent ==
    step = "reset" =>
        /\ input_count = 0
        /\ last_executed_time = EmptyTable
        /\ pre.op = "reset" =>
               /\ input_count = pre.input_count
               /\ last_executed_time = pre.last_executed_time
               /\ home = pre.home
               /\ project = pre.project

(* a second reset in a row, in a run whose session had already fired rules *)
ResetTwiceInARow ==
    /\ step = "reset"
    /\ pre.op = "reset"
    /\ rules # <<>>
    /\ now > 0

(* C12: right after a reset both rule files hold exactly what they held    *)
(* when the reset was called.                                              *)
ResetKeepsFiles ==
    step = "reset" => (home = pre.home /\ project = pre.project)

(* a reset called right after add_rule changed the project file *)
ResetAfterFileChange ==
    /\ step = "reset"
    /\ pre.op = "add_rule"
    /\ project # DocStd
    /\ project = pre.project

(* C13: every get_rules call loads and evaluates the two files as they are *)
(* stored when it is called: its loaded documents, its table and its       *)
(* return value are those of an evaluation of the files' content at the    *)
(* call, so a directive added or removed since the call before shows in it.*)
EvaluatesStoredDocuments ==
    step = "get_rules" =>
        /\ home = pre.home
        /\ project = pre.project
        /\ rules = load_rules(pre.home, pre.project)
        /\ \E st \in {Evaluate(load_rules(pre.home, pre.project), input_count,
                                pre.last_executed_time, now)} :
               /\ last_executed_time = st.last
               /\ st.err = NoErr => ret = [status |-> "ok", value |-> st.applicable]
               /\ st.err # NoErr => ret.status = st.err

(* a later call of a session returns a directive that add_rule put into *)
(* the project file after the call before                               *)
AddedDirectiveReturnedNext ==
    /\ step = "get_rules"
    /\ Returned
    /\ calls >= 2
    /\ pre.op = "add_rule"
    /\ From("project", MinutesKey(2)) = <<"read", "style">>

(* C14: a reset call gives its caller a status value, not the absent *)
(* value.                                                            *)
ResetReturnsAcknowledgement ==
    step = "reset" => ret.status # "None"

(* C15: in every reachable state the counter is a natural number equal to  *)
(* the number of get_rules calls since construction or the last reset: a   *)
(* get_rules call leaves it one above what it was, a reset leaves it 0,    *)
(* and add_rule and remove_rule leave it as it was.                        *)
CounterCountsCalls ==
    /\ input_count \in Nat
    /\ input_count = calls
    /\ step = "init" => input_count = 0
    /\ step = "get_rules" => input_count = pre.input_count + 1
    /\ step = "reset" => input_count = 0
    /\ step \in {"add_rule", "remove_rule"} => input_count = pre.input_count

(* a file change made by the program two calls into a session *)
CounterHeldAcrossEdit ==
    /\ step \in {"add_rule", "remove_rule"}
    /\ ret.status = "success"
    /\ input_count = 2
    /\ now > 0

(* C16: right after a get_rules call, returned or raised, a key whose      *)
(* table entry is new or differs from the entry before the call is a key   *)
(* of a loaded document whose minutes rule was due, whose directives the   *)
(* call appended to its result list, and whose entry is the call's clock   *)
(* reading; every other entry is what it was, none is dropped, and a plain *)
(* every_N_minutes key with directives in the list carries the call's      *)
(* clock reading.                                                          *)
Appended ==
    IF ret.status = "ok" THEN ret.value
    ELSE Evaluate(rules, input_count, pre.last_executed_time, now).applicable

StampChanged(k) ==
    \/ k \notin DOMAIN pre.last_executed_time
    \/ last_executed_time[k] # pre.last_executed_time[k]

MinutesRuleDue(k) ==
    /\ StartsWith(k, EveryPrefix)
    /\ Contains(k, MinutesTag)
    /\ ParseInt(Split(k)[2]).ok
    /\ \/ k \notin DOMAIN pre.last_executed_time
       \/ now - pre.last_executed_time[k]
              >= ParseInt(Split(k)[2]).val * SecondsPerMinute

AppendedFrom(i, k) ==
    Texts(SelectSeq(Appended, LAMBDA x : x.src = rules[i].src /\ x.key = k))

StampOnlyWhenFired ==
    step = "get_rules" =>
        /\ DOMAIN pre.last_executed_time \subseteq DOMAIN last_executed_time
        /\ \A k \in DOMAIN last_executed_time :
               StampChanged(k) =>
                   /\ last_executed_time[k] = now
                   /\ MinutesRuleDue(k)
                   /\ \E i \in Loaded :
                          /\ rules[i].kind = "map"
                          /\ HasKey(rules[i].body, k)
                          /\ Len(AppendedFrom(i, k)) > 0
                          /\ AppendedFrom(i, k) \in
                                 {Get(rules[i].body, k),
                                  Get(rules[i].body, k) \o Get(rules[i].body, k)}
        /\ \A j \in 1..Len(Appended) :
               (/\ StartsWith(Appended[j].key, EveryPrefix)
                /\ Contains(Appended[j].key, MinutesTag)
                /\ ~Contains(Appended[j].key, InputsTag))
               => /\ Appended[j].key \in DOMAIN last_executed_time
                  /\ last_executed_time[Appended[j].key] = now

(* one key fires again and is stamped, another is checked too early and *)
(* keeps its older stamp                                                *)
OneStampedOneKept ==
    /\ step = "get_rules"
    /\ Returned
    /\ MinutesKey(1) \in DOMAIN pre.last_executed_time
    /\ MinutesKey(2) \in DOMAIN pre.last_executed_time
    /\ pre.last_executed_time[MinutesKey(1)] < now
    /\ last_executed_time[MinutesKey(1)] = now
    /\ UnderKey(MinutesKey(1)) = <<"pause">>
    /\ last_executed_time[MinutesKey(2)] = pre.last_executed_time[MinutesKey(2)]
    /\ last_executed_time[MinutesKey(2)] < now
    /\ \E i \in Loaded : HasKey(rules[i].body, MinutesKey(2))

(* C17 as stated: in every result all directives of `first` keys come      *)
(* before any directive of an every_N_inputs key, and those before any     *)
(* directive of an every_N_minutes key, with the home document's entries   *)
(* before the project document's inside each group.                        *)
Group(x) ==
    IF x.key = FirstKey THEN 1
    ELSE IF \E n \in PositiveNs : x.key = InputsKey(n) THEN 2
    ELSE IF \E n \in PositiveNs : x.key = MinutesKey(n) THEN 3
    ELSE 0

GroupedByTriggerKind ==
    Returned =>
        \A a, b \in 1..Len(ret.value) :
            (a < b /\ Group(ret.value[a]) > 0 /\ Group(ret.value[b]) > 0)
            => /\ Group(ret.value[a]) <= Group(ret.value[b])
               /\ Group(ret.value[a]) = Group(ret.value[b])
                     => ~(ret.value[a].src = "project" /\ ret.value[b].src = "home")

(* C17, amended: in every result the directives are grouped by document in *)
(* load order; inside one document's group the directives of its `first`   *)
(* key come first and the others follow in the document's key order, input *)
(* keys and minute keys mixed as the document lists them; and a key's      *)
(* directives stand in list order.                                         *)
DocPos(x) == CHOOSE i \in Loaded : rules[i].src = x.src

KeyRank(x) ==
    IF x.key = FirstKey THEN 0 ELSE KeyIndex(rules[DocPos(x)].body, x.key)

GroupedByDocument ==
    Returned =>
        /\ \A a, b \in 1..Len(ret.value) :
               a < b =>
                   /\ DocPos(ret.value[a]) <= DocPos(ret.value[b])
                   /\ DocPos(ret.value[a]) = DocPos(ret.value[b])
                         => KeyRank(ret.value[a]) <= KeyRank(ret.value[b])
        /\ \A i \in Loaded : \A j \in 1..Len(rules[i].body) :
               From(rules[i].src, rules[i].body[j].key) \in
                   {<<>>, rules[i].body[j].actions,
                    rules[i].body[j].actions \o rules[i].body[j].actions}

(* the first call over two documents: the home document's minutes *)
(* directive stands before the project document's first directives *)
HomeMinutesBeforeProjectFirst ==
    /\ Returned
    /\ Len(rules) = 2
    /\ input_count = 1
    /\ Texts(ret.value) = <<"hello", "pause", "hello", "style", "read">>
    /\ ret.value[2] = [src |-> "home", key |-> MinutesKey(1), text |-> "pause"]
    /\ ret.value[3] = [src |-> "project", key |-> FirstKey, text |-> "hello"]

(* C18: right after add_rule or remove_rule the counter and the last-fired *)
(* table are what they were when it was called.  So a get_rules call that  *)
(* is not the first since construction or reset returns no `first`         *)
(* directive, whatever was added meanwhile, and returns nothing under an   *)
(* every_N_minutes key whose entry, kept across a removal, is younger than *)
(* N minutes.                                                              *)
EditsKeepEvaluatorState ==
    /\ step \in {"add_rule", "remove_rule"} =>
           /\ input_count = pre.input_count
           /\ last_executed_time = pre.last_executed_time
    /\ (step = "get_rules" /\ Returned) =>
           /\ input_count > 1 =>
                  \A i \in 1..Len(ret.value) : ret.value[i].key # FirstKey
           /\ \A n \in PositiveNs :
                  (/\ MinutesKey(n) \in DOMAIN pre.last_executed_time
                   /\ now - pre.last_executed_time[MinutesKey(n)] < n * SecondsPerMinute)
                  => UnderKey(MinutesKey(n)) = <<>>

(* the every_2_minutes key fired, was removed with its only directive and *)
(* added again (it now stands after `first`), and the next call, less     *)
(* than two minutes after the firing, returns nothing under it            *)
ReAddedKeyStaysQuiet ==
    /\ step = "get_rules"
    /\ Returned
    /\ pre.op = "add_rule"
    /\ project = MapFile(<<Entry(FirstKey, <<"style">>), Entry(MinutesKey(2), <<"style">>)>>)
    /\ MinutesKey(2) \in DOMAIN pre.last_executed_time
    /\ now - pre.last_executed_time[MinutesKey(2)] < 2 * SecondsPerMinute
    /\ From("project", MinutesKey(2)) = <<>>

(* C19: right after an add_rule or remove_rule call that did not return    *)
(* "success" both files hold what they held when it was called; after one  *)
(* that returned "success" exactly one file differs; after a successful    *)
(* add_rule that file is the old document with one directive, absent from  *)
(* its key's list before, appended at the end of that list (a new key goes *)
(* to the end of the document); and if no list of the file had a duplicate *)
(* before the call, none has one after it.                                 *)
FileBefore(target) == IF target = "home" THEN pre.home ELSE pre.project

NoDuplicates(f) ==
    \A e \in 1..Len(f.body) :
        \A i, j \in 1..Len(f.body[e].actions) :
            f.body[e].actions[i] = f.body[e].actions[j] => i = j

AppendedOnce(old, new, key, c) ==
    /\ old.kind \in {"map", "empty"}
    /\ new.kind = "map"
    /\ IF HasKey(old.body, key)
       THEN /\ ~InList(Get(old.body, key), c)
            /\ Len(new.body) = Len(old.body)
            /\ \A j \in 1..Len(old.body) :
                   new.body[j] = IF old.body[j].key = key
                                 THEN Entry(key, Append(old.body[j].actions, c))
                                 ELSE old.body[j]
       ELSE new.body = Append(old.body, Entry(key, <<c>>))

OnlySuccessWrites ==
    step \in {"add_rule", "remove_rule"} =>
        /\ ret.status # "success" => (home = pre.home /\ project = pre.project)
        /\ ret.status = "success" =>
               \E target \in Targets :
                   /\ FileOf(target) # FileBefore(target)
                   /\ \A other \in Targets \ {target} : FileOf(other) = FileBefore(other)
                   /\ step = "add_rule" =>
                          \E rule_type \in RuleTypes, value \in Values, c \in Contents :
                              /\ RuleKeyOk(rule_type, value)
                              /\ AppendedOnce(FileBefore(target), FileOf(target),
                                              RuleKey(rule_type, value), c)
        /\ \A target \in Targets :
               NoDuplicates(FileBefore(target)) => NoDuplicates(FileOf(target))

(* add_rule put a directive at the end of a list that already held another *)
DirectiveAppendedAtEnd ==
    /\ step = "add_rule"
    /\ ret.status = "success"
    /\ Get(pre.project.body, MinutesKey(2)) = <<"read">>
    /\ Get(project.body, MinutesKey(2)) = <<"read", "style">>
    /\ home = pre.home

(* C20: in every reachable state a file that holds a mapping holds at      *)
(* least one key and no key with an empty list; right after a successful   *)
(* remove_rule every key the file held before is either gone or still has  *)
(* directives; right after a get_rules call no loaded document has a key   *)
(* with an empty list, and a file left with the comment line only          *)
(* contributes no loaded document.                                         *)
NoEmptyList(f) ==
    f.kind = "map" =>
        /\ Len(f.body) > 0
        /\ \A e \in 1..Len(f.body) : Len(f.body[e].actions) > 0

NoEmptyLists ==
    /\ \A target \in Targets : NoEmptyList(FileOf(target))
    /\ (step = "remove_rule" /\ ret.status = "success") =>
           \A target \in Targets :
               \A e \in 1..Len(FileBefore(target).body) :
                   \/ ~HasKey(FileOf(target).body, FileBefore(target).body[e].key)
                   \/ Len(Get(FileOf(target).body, FileBefore(target).body[e].key)) > 0
    /\ step = "get_rules" =>
           /\ \A i \in Loaded : NoEmptyList(rules[i])
           /\ \A target \in Targets :
                  FileOf(target).kind = "empty" =>
                      \A i \in Loaded : rules[i].src # target

(* remove_rule took the last directive of the last key of the project     *)
(* file, and the next get_rules loads the home document alone             *)
EmptiedFileNotLoaded ==
    /\ step = "get_rules"
    /\ Returned
    /\ pre.op = "remove_rule"
    /\ edits = 2
    /\ project = EmptyFile
    /\ Len(rules) = 1
    /\ rules[1].src = "home"

====
